---- MODULE Spec2Model ----
(***************************************************************************)
(* Live-capture core of AntigravityMobile (src/chat-stream.mjs): the       *)
(* module-level streaming state, the CDP session objects made by           *)
(* connectCDP, and the async operations startChatStream, stopChatStream,   *)
(* getChatSnapshot and the poll closure, cut at their await points.        *)
(* Everything that runs between two awaits is one atomic step, as on the   *)
(* single-threaded event loop of the program.                              *)
(***************************************************************************)
EXTENDS Integers, Sequences, FiniteSets, TLC

(* ------------------------------ bounds -------------------------------- *)
\* startChatStream calls made in one behaviour
MaxStarts == 2
\* getChatSnapshot calls made in one behaviour
MaxSnaps == 1
\* firings of setInterval timers in one behaviour
MaxTicks == 2
\* WebSocket objects opened in one behaviour
MaxConns == 3
\* changes of the chat markup in one behaviour
MaxHtml == 1
\* timer firings and markup changes in a behaviour with two startChatStream calls
RestartTicks == 1
RestartHtml == 1
\* timer firings and context changes in a behaviour that follows one session
LocateTicks == 2
LocateCtx == 2
\* debugging targets the environment can offer
NumTargets == 2
\* timer firings in a behaviour whose consumer callback may throw
ThrowTicks == 1
\* timer firings, markup changes and context changes in a behaviour whose
\* cycles meet both
SkipTicks == 2
SkipHtml == 1
SkipCtx == 1
\* timer firings and context changes in a behaviour whose messages arrive in
\* any order
CallsTicks == 2
CallsCtx == 1
\* timer firings and context changes in a behaviour where getChatSnapshot
\* shares the streaming session with the cycles
ShareTicks == 1
ShareCtx == 1
\* entries in the list one port answers with
MaxList == 2
\* calls of hashString followed in one behaviour, and the length of the
\* strings they are given
MaxHashCalls == 3
MaxStr == 2
\* direct children of the chat root, and elements inside each of them
MaxKids == 2
MaxLeaves == 2
\* execution-context ids a page can use
MaxCtx == 3

(* ------------------------------- state --------------------------------- *)
VARIABLES
    connection,     \* let connection: id of the retained session, 0 = null
    onChatUpdate,   \* let onChatUpdate: id of the start call whose callback it is, 0 = null
    pollInterval,   \* let pollInterval: id of the timer, 0 = null
    lastHash,       \* let lastHash
    conns,          \* the session objects connectCDP has made (ws, contexts, cascadeContextId, idCounter)
    nconn,          \* how many of them exist
    timers,         \* the setInterval timers that are scheduled and not cleared
    procs,          \* the async calls in progress: startChatStream, getChatSnapshot, poll cycles
    left,           \* what the behaviour may still do: calls, timer firings, page changes
    remote,         \* the debugged pages: live contexts, the context holding #cascade, its markup
    wsSendThrows,   \* whether ws.send on a socket that is not open throws (else it drops the message)
    trace,          \* history: the onChatUpdate invocations and the stopChatStream
                    \* calls, in the order they happened
    disc,           \* one findTargets call followed port by port: what each port
                    \* answers, the loop's position, the targets collected
    hs,             \* the hashString calls followed: the value the local `hash`
                    \* had when the last one returned, and (history) the calls
    dom             \* one run of captureChat's SCRIPT in the page: the live
                    \* #cascade tree, the clone, the script's lists, its position

vars == << connection, onChatUpdate, pollInterval, lastHash, conns, nconn, timers,
           procs, left, remote, wsSendThrows, trace, disc, hs, dom >>

(* --------------------------- hashString -------------------------------- *)
\* 16-bit limbs of the two's-complement 32-bit pattern of a signed integer
Limbs(n) == << (n \div 65536) % 65536, n % 65536 >>

\* the signed 32-bit integer with limbs l (ToInt32)
ToSigned(l) == (IF l[1] >= 32768 THEN l[1] - 65536 ELSE l[1]) * 65536 + l[2]

\* hash = ((hash << 5) - hash) + c; hash = hash & hash   (on limbs, mod 2^32)
HashStep(l, c) ==
    LET lo5 == (l[2] * 32) % 65536
        hi5 == (l[1] * 32 + (l[2] * 32) \div 65536) % 65536
        lor == lo5 - l[2] + c
        hir == hi5 - l[1] + (lor \div 65536)
    IN  << hir % 65536, lor % 65536 >>

RECURSIVE HashFrom(_, _, _)
HashFrom(l, str, i) ==
    IF i > Len(str) THEN l ELSE HashFrom(HashStep(l, str[i]), str, i + 1)

\* digits (most significant first) of m >= 0 in base 36; "0" for 0
RECURSIVE Digits36(_)
Digits36(m) == IF m < 36 THEN << m >> ELSE Append(Digits36(m \div 36), m % 36)

\* Number.prototype.toString(36) of a signed 32-bit integer: a leading -1
\* stands for the minus sign, the rest are the base-36 digits of |n|
ToString36(n) ==
    IF n >= 0 THEN Digits36(n)
    ELSE LET r == n % 36
             q == n \div 36
         IN  IF r = 0 THEN << -1 >> \o Append(Digits36(-q), 0)
             ELSE IF -q - 1 = 0 THEN << -1, 36 - r >>
             ELSE << -1 >> \o Append(Digits36(-q - 1), 36 - r)

\* no hashString call has been followed
NoHash == [ hash |-> << 0, 0 >>, log |-> << >> ]

\* HashStart taking the value the last call left in `hash`
HashStartCarried == hs.hash

\* let hash = 0 (line 24)
HashStart == << 0, 0 >>

\* the value of `hash` after the loop of lines 25-28
HashLoop(str) == HashFrom(HashStart, str, 1)

hashString(str) == ToString36(ToSigned(HashLoop(str)))

(* ------------------------------ domains -------------------------------- *)
Targets  == 1 .. NumTargets
ConnIds  == 1 .. MaxConns
CtxIds   == 1 .. MaxCtx
StartIds == 1 .. MaxStarts
SnapIds  == (MaxStarts + 1) .. (MaxStarts + MaxSnaps)
CycleIds == (MaxStarts + MaxSnaps + 1) .. (MaxStarts + MaxSnaps + MaxTicks)
ProcIds  == StartIds \cup SnapIds \cup CycleIds

\* markup the capture script can return: "Aa", "BB" (same hash as "Aa"), "b"
\* and the empty string
Htmls == << << 65, 97 >>, << 66, 66 >>, << 98 >>, << >> >>
HtmlIds == 1 .. Len(Htmls)

\* the increasing sequence of the members of S that are >= t
RECURSIVE Sorted(_, _)
Sorted(S, t) ==
    IF t > NumTargets THEN << >>
    ELSE (IF t \in S THEN << t >> ELSE << >>) \o Sorted(S, t + 1)

\* the ordered lists findTargets can return: port order, one page per port
TargetLists == { Sorted(S, 1) : S \in SUBSET Targets }

\* lastHash = null (toString never returns the empty string)
NullHash == << >>

Range(f) == { f[i] : i \in DOMAIN f }

Min(S) == CHOOSE x \in S : \A y \in S : x <= y

Kind(p) == IF p \in StartIds THEN "start" ELSE IF p \in SnapIds THEN "snap" ELSE "cycle"

\* a session object: the socket's state, the page it debugs, idCounter,
\* contexts, cascadeContextId, the messages in flight to it, whether the
\* context tracking handler is installed, and (history) whether
\* startChatStream has stored it in `connection`, whether connectCDP has
\* returned it, and the call that opened it
NoConn == [ st |-> "none", tgt |-> 0, idc |-> 0, ctxs |-> << >>, cache |-> 0, inbox |-> << >>,
            kept |-> FALSE, on |-> FALSE, ready |-> FALSE, by |-> 0 ]

\* an async call: where it is suspended (pc, in phase ph of its function), its
\* locals (the targets still to try, the session cdp, the id it awaits, the
\* scan's iterator index and context, contextId, the value returned), and
\* history of the scan in progress (seen: the contexts it has probed, stay:
\* the contexts that have been in `contexts` since it began),
\* history (cap: the value the capture SCRIPT answered, chat: what captureChat
\* returned, -1 for null, 0 while it has not returned),
\* history of its last findCascadeContext call (the cached id it started with
\* when that id had been destroyed, the ids probed found, whether the cached
\* probe failed, whether the scan ran), of getChatSnapshot (the session
\* reused, the candidates found and passed over) and of captureChat (the
\* value captured) and of startChatStream (whether it was called while
\* isStreaming() was true, whether stopChatStream has been called since, on
\* how many candidates findCascadeContext succeeded, whether the consumer
\* callback threw in its poll)
IdleProc == [ pc |-> "idle", ph |-> "", tgts |-> << >>, cdp |-> 0, wait |-> 0, idx |-> 0,
              pctx |-> 0, ctx |-> 0, res |-> 0, stale |-> 0, pf |-> {}, cfail |-> FALSE,
              rescan |-> FALSE, reused |-> 0, cands |-> 0, tried |-> 0, cap |-> 0,
              chat |-> 0, seen |-> {}, stay |-> {},
              was |-> FALSE, stopped |-> FALSE, loc |-> 0, threw |-> FALSE ]

\* the program state a step works on; thr: whether the consumer callback
\* throws if this step invokes it, exc: an exception thrown by it is in flight
Cur == [ connection |-> connection, onChatUpdate |-> onChatUpdate,
         pollInterval |-> pollInterval, lastHash |-> lastHash, conns |-> conns,
         nconn |-> nconn, timers |-> timers, procs |-> procs, trace |-> trace,
         thr |-> FALSE, exc |-> FALSE ]

Commit(W) ==
    /\ connection' = W.connection
    /\ onChatUpdate' = W.onChatUpdate
    /\ pollInterval' = W.pollInterval
    /\ lastHash' = W.lastHash
    /\ conns' = W.conns
    /\ nconn' = W.nconn
    /\ timers' = W.timers
    /\ procs' = W.procs
    /\ trace' = W.trace

SetP(W, p, f) == [ W EXCEPT !.procs[p] = f ]

(* ------------------------- the remote side ----------------------------- *)
\* Value codes of a response: -1 an error payload (the call rejects).
\* Runtime.enable: 1 a result.  Probe: 1 found, 0 not found.
\* Capture: h >= 1 a value whose html is Htmls[h], 0 the value
\* {error: 'cascade not found'}, -2 a result without a value (the script threw).

\* what Runtime.evaluate of the probe SCRIPT in context c answers on session k
RemoteProbe(W, k, c) ==
    LET r == remote[W.conns[k].tgt]
    IN  IF c \notin r.ctxs THEN -1 ELSE IF r.host = c THEN 1 ELSE 0

\* what Runtime.evaluate of the capture SCRIPT in context c answers on session k
RemoteCapture(W, k, c, fail) ==
    LET r == remote[W.conns[k].tgt]
    IN  IF c \notin r.ctxs THEN -1
        ELSE IF r.host # c THEN 0
        ELSE IF fail THEN -2 ELSE r.html

\* the contexts S of a page in creation order, as Runtime.enable announces
\* them (an executionContextCreated event for each, before its response)
RECURSIVE CtxSeq(_, _)
CtxSeq(S, c) ==
    IF c > MaxCtx THEN << >>
    ELSE (IF c \in S THEN << c >> ELSE << >>) \o CtxSeq(S, c + 1)

(* ----------------------------- findTargets ----------------------------- *)
\* const CDP_PORTS (line 12): its first three ports
CDP_PORTS == << 9222, 9000, 9001 >>

\* str.includes(w), strings being sequences of words; an absent field
\* (t.url?.includes) is the empty sequence, for which the test is false too
Includes(str, w) == \E i \in DOMAIN str : str[i] = w

\* entries a /json/list answer can hold: one matching by its url only, one by
\* its title only, two by their type only, two matching nothing
Descs ==
    { [ url |-> << "vscode-file", "workbench.html" >>, title |-> << "Workbench" >>,
        type |-> "iframe" ],
      [ url |-> << "about:blank" >>, title |-> << "Antigravity", "project" >>,
        type |-> "iframe" ],
      [ url |-> << "about:blank" >>, title |-> << "Workbench" >>, type |-> "page" ],
      [ url |-> << "https", "example" >>, title |-> << "Settings" >>, type |-> "page" ],
      [ url |-> << >>, title |-> << "Workbench" >>, type |-> "iframe" ],
      [ url |-> << "about:blank" >>, title |-> << >>, type |-> "worker" ] }

Lists == UNION { [ 1 .. n -> Descs ] : n \in 0 .. MaxList }

\* what a port answers to GET /json/list: nothing (closed, timeout), something
\* that makes res.json() or list.filter throw, or a list of entries
Answers ==
    { [ kind |-> k, list |-> << >> ] : k \in { "closed", "error" } }
        \cup { [ kind |-> "list", list |-> l ] : l \in Lists }

\* Matches without the test of the entry's type
MatchesNoType(t) ==
    Includes(t.url, "workbench.html") \/ Includes(t.title, "Antigravity")

\* the filter of lines 45-49
Matches(t) ==
    \/ Includes(t.url, "workbench.html")
    \/ Includes(t.title, "Antigravity")
    \/ t.type = "page"

\* workbenches.forEach(t => targets.push({ ...t, port })), line 51
Push(targets, workbenches, port) ==
    targets \o [ i \in DOMAIN workbenches |-> [ t |-> workbenches[i], port |-> port ] ]

\* PortStep whose catch throws the collected targets away
PortStepReset(targets, port, a) ==
    IF a.kind = "list" THEN Push(targets, SelectSeq(a.list, Matches), port) ELSE << >>

\* one iteration of `for (const port of CDP_PORTS)`, lines 38-54, the port
\* answering a
PortStep(targets, port, a) ==
    IF a.kind = "list" THEN Push(targets, SelectSeq(a.list, Matches), port) ELSE targets

\* no findTargets call is followed
NoDisc == [ ports |-> << >>, i |-> 0, targets |-> << >> ]

(* ------------------------ the capture SCRIPT -------------------------- *)
\* The #cascade tree: the chat root's direct children, in document order,
\* each a container [id, kind, kids] of elements [id, kind, src]. Containers:
\* "div", "xterm" (a terminal, class xterm), "composer" (class ...Composer).
\* Elements: "input" (an <input> without placeholder), "button" (none of the
\* feedback buttons), "msg" (class ...message), "canvas" (can be rasterized),
\* "canvas0" (width 0), "rows" (a terminal's text layer, with text),
\* "editable" (contenteditable="true"); made by the script: "pre" and "img",
\* src being the dataUrl, named by the id of the canvas it was made from.
\* An id is the place of the node in the live tree; a clone keeps it.
LeafKinds == { "input", "button", "msg", "canvas", "canvas0", "rows", "editable" }

BoxKinds == { "div", "xterm", "composer" }

CanvasTags == { "canvas", "canvas0" }

Shapes ==
    UNION { [ 1 .. n -> [ kind : BoxKinds,
                          kids : UNION { [ 1 .. m -> LeafKinds ] : m \in 0 .. MaxLeaves } ] ] :
            n \in 0 .. MaxKids }

\* the tree of a shape, every node with its id
MkTree(sh) ==
    [ c \in DOMAIN sh |->
        [ id |-> c, kind |-> sh[c].kind,
          kids |-> [ j \in DOMAIN sh[c].kids |->
                       [ id |-> << c, j >>, kind |-> sh[c].kids[j], src |-> << >> ] ] ] ]

Has(box, kinds) == \E j \in DOMAIN box.kids : box.kids[j].kind \in kinds

\* root.querySelectorAll(<elements of these kinds>): their places << c, j >>
\* in document order
RECURSIVE LeafPos(_, _, _)
LeafPos(tree, kinds, c) ==
    IF c > Len(tree) THEN << >>
    ELSE SelectSeq([ j \in DOMAIN tree[c].kids |-> << c, j >> ],
                   LAMBDA x : tree[c].kids[x[2]].kind \in kinds)
            \o LeafPos(tree, kinds, c + 1)

\* root.querySelectorAll('.xterm, [class*="terminal"], [class*="Terminal"]')
Terminals(tree) ==
    SelectSeq([ c \in DOMAIN tree |-> c ], LAMBDA c : tree[c].kind = "xterm")

\* lines 170-231: terminalTexts, the indexes of the terminals with text
TerminalTexts(live) ==
    SelectSeq([ n \in DOMAIN Terminals(live) |-> n ],
              LAMBDA n : Has(live[Terminals(live)[n]], { "rows" }))

\* lines 260-268: the terminal's first canvas becomes the pre, the others go
TerminalToPre(kids) ==
    LET cv == SelectSeq([ j \in DOMAIN kids |-> j ], LAMBDA j : kids[j].kind \in CanvasTags)
    IN  IF cv = << >> THEN kids
        ELSE SelectSeq([ j \in DOMAIN kids |->
                           IF j = cv[1] THEN [ kids[j] EXCEPT !.kind = "pre" ] ELSE kids[j] ],
                       LAMBDA e : e.kind \notin CanvasTags)

\* lines 237-270: clonedTerminals[item.index] for every item of terminalTexts
ReplaceTerminals(clone, texts) ==
    LET ct == Terminals(clone)
    IN  [ c \in DOMAIN clone |->
            IF \E n \in DOMAIN texts : texts[n] <= Len(ct) /\ ct[texts[n]] = c
            THEN [ clone[c] EXCEPT !.kids = TerminalToPre(@) ]
            ELSE clone[c] ]

\* lines 273-287: canvasReplacements, index being the canvas's place among
\* all canvases of the live tree
Rasterize(live) ==
    LET cv == LeafPos(live, CanvasTags, 1)
        ok == SelectSeq([ n \in DOMAIN cv |-> n ],
                        LAMBDA n : /\ live[cv[n][1]].kind # "xterm"
                                   /\ live[cv[n][1]].kids[cv[n][2]].kind = "canvas")
    IN  [ n \in DOMAIN ok |-> [ index |-> ok[n], dataUrl |-> cv[ok[n]] ] ]

\* lines 290-298: clonedCanvases[item.index] is replaced by the item's image
ApplyCanvases(clone, repl) ==
    LET cc == LeafPos(clone, CanvasTags, 1)
    IN  [ c \in DOMAIN clone |->
            [ clone[c] EXCEPT !.kids =
                [ j \in DOMAIN @ |->
                    IF \E n \in DOMAIN repl :
                          repl[n].index <= Len(cc) /\ cc[repl[n].index] = << c, j >>
                    THEN LET n == CHOOSE n \in DOMAIN repl :
                                      repl[n].index <= Len(cc) /\ cc[repl[n].index] = << c, j >>
                         IN  [ @[j] EXCEPT !.kind = "img", !.src = repl[n].dataUrl ]
                    ELSE @[j] ] ] ]

\* el.remove() for the elements of these kinds
RemoveLeaves(clone, kinds) ==
    [ c \in DOMAIN clone |->
        [ clone[c] EXCEPT !.kids = SelectSeq(@, LAMBDA e : e.kind \notin kinds) ] ]

\* lines 303-323: the first contenteditable="true": its container goes when
\* its class names an input bar; if one is left, the first one goes itself
RemoveEditable(clone) ==
    LET ed == LeafPos(clone, { "editable" }, 1)
        c1 == IF ed # << >> /\ clone[ed[1][1]].kind = "composer"
              THEN SelectSeq(clone, LAMBDA b : b.id # clone[ed[1][1]].id)
              ELSE clone
        e1 == LeafPos(c1, { "editable" }, 1)
    IN  IF ed = << >> \/ e1 = << >> THEN c1
        ELSE [ c1 EXCEPT ![e1[1][1]].kids =
                 SubSeq(@, 1, e1[1][2] - 1) \o SubSeq(@, e1[1][2] + 1, Len(@)) ]

\* lines 343-350: every [contenteditable] goes with the direct child of the
\* clone that holds it
RemoveEditableBoxes(clone) == SelectSeq(clone, LAMBDA b : ~Has(b, { "editable" }))

\* line 353: the elements whose class names a composer
RemoveComposers(clone) == SelectSeq(clone, LAMBDA b : b.kind # "composer")

\* lines 367-374: the last child goes when it holds no message element but
\* one of [contenteditable], [placeholder], button, select
RemoveLastChild(clone) ==
    IF /\ clone # << >>
       /\ ~Has(clone[Len(clone)], { "msg" })
       /\ Has(clone[Len(clone)], { "editable", "button" })
    THEN SubSeq(clone, 1, Len(clone) - 1)
    ELSE clone

\* the steps of the SCRIPT in their order; after the last, it returns
\* clone.outerHTML (line 401). The removals of lines 331-342 and 354-363
\* (feedback buttons, placeholders, input-bar classes, sticky elements) find
\* nothing in the trees above.
ScriptSteps == 10

ScriptStage(d) ==
    CASE d.pc = 1 -> [ d EXCEPT !.texts = TerminalTexts(d.live) ]
      [] d.pc = 2 -> [ d EXCEPT !.clone = d.live ]
      [] d.pc = 3 -> [ d EXCEPT !.clone = ReplaceTerminals(@, d.texts) ]
      [] d.pc = 4 -> [ d EXCEPT !.repl = Rasterize(d.live) ]
      [] d.pc = 5 -> [ d EXCEPT !.clone = ApplyCanvases(@, d.repl) ]
      [] d.pc = 6 -> [ d EXCEPT !.clone = RemoveEditable(@) ]
      [] d.pc = 7 -> [ d EXCEPT !.clone = RemoveLeaves(@, { "input" }) ]
      [] d.pc = 8 -> [ d EXCEPT !.clone = RemoveEditableBoxes(@) ]
      [] d.pc = 9 -> [ d EXCEPT !.clone = RemoveComposers(@) ]
      [] d.pc = 10 -> [ d EXCEPT !.clone = RemoveLastChild(@) ]

\* no run of the SCRIPT is followed
NoDom == [ live |-> << >>, clone |-> << >>, texts |-> << >>, repl |-> << >>, pc |-> 0 ]

(* ----------------------------- connectCDP ------------------------------ *)
\* the tracking handler installed only once Runtime.enable has been answered
InstallLate == FALSE

\* ws.on('message', ...) of line 91 comes before the call of line 104: the
\* tracking handler is installed when Runtime.enable is sent
InstallFirst == TRUE

\* call without idCounter++: every request carries the same id
callSameId(W, k, v) ==
    IF W.conns[k].st = "open"
    THEN [ W EXCEPT !.conns[k].inbox =
                        Append(@, [k |-> "resp", id |-> W.conns[k].idc, v |-> v]) ]
    ELSE W

\* const call = (method, params) => new Promise(...): takes the next id and
\* sends; an open socket's request is answered by the remote side with value v
call(W, k, v) ==
    IF W.conns[k].st = "open"
    THEN [ W EXCEPT !.conns[k].idc = @ + 1,
                    !.conns[k].inbox =
                        Append(@, [k |-> "resp", id |-> W.conns[k].idc, v |-> v]) ]
    ELSE [ W EXCEPT !.conns[k].idc = @ + 1 ]

\* ws.on('message', ...) of connectCDP: the context tracking handler
\* contexts.findIndex(c => c.id === id): 0 when there is none
FindIndex(ctxs, id) ==
    IF \E i \in DOMAIN ctxs : ctxs[i] = id
    THEN CHOOSE i \in DOMAIN ctxs : ctxs[i] = id /\ \A j \in 1 .. (i - 1) : ctxs[j] # id
    ELSE 0

\* contexts.splice(idx, 1)
Splice(ctxs, idx) == SubSeq(ctxs, 1, idx - 1) \o SubSeq(ctxs, idx + 1, Len(ctxs))

\* TrackContexts ignoring executionContextDestroyed
TrackContextsKeep(ctxs, m) == IF m.k = "created" THEN Append(ctxs, m.id) ELSE ctxs

\* lines 94-99: what the handler makes of `contexts` on message m
TrackContexts(ctxs, m) ==
    IF m.k = "created" THEN Append(ctxs, m.id)
    ELSE IF m.k = "destroyed"
         THEN (IF FindIndex(ctxs, m.id) # 0 THEN Splice(ctxs, FindIndex(ctxs, m.id)) ELSE ctxs)
         ELSE ctxs

\* cdp.ws.close()
wsClose(W, k) ==
    IF W.conns[k].st = "open" THEN [ W EXCEPT !.conns[k].st = "closed" ] ELSE W

\* a call whose promise never settles: the async function stays suspended
Hung(f) == [ f EXCEPT !.pc = "hung", !.wait = 0 ]

\* an async function that has returned res
Returned(f, res) ==
    [ IdleProc EXCEPT !.pc = "done", !.res = res, !.stale = f.stale, !.pf = f.pf,
                      !.ctx = f.ctx, !.cfail = f.cfail, !.rescan = f.rescan,
                      !.reused = f.reused, !.cands = f.cands, !.tried = f.tried,
                      !.cap = f.cap, !.chat = f.chat, !.was = f.was, !.stopped = f.stopped,
                      !.loc = f.loc, !.threw = f.threw ]

(* ------------------------ the poll closure ----------------------------- *)
\* HashGate without `if (hash !== lastHash)`
HashGateNoCompare(W, p, v) ==
    IF v >= 1 /\ Htmls[v] # << >>
    THEN [ W EXCEPT !.lastHash = hashString(Htmls[v]),
                    !.trace = IF W.onChatUpdate # 0
                              THEN Append(@, [ev |-> "emit", cb |-> W.onChatUpdate,
                                              hash |-> hashString(Htmls[v]), cyc |-> p])
                              ELSE @ ]
    ELSE W

\* HashGate without `lastHash = hash`
HashGateNoStore(W, p, v) ==
    IF v >= 1 /\ Htmls[v] # << >> /\ hashString(Htmls[v]) # W.lastHash /\ W.onChatUpdate # 0
    THEN [ W EXCEPT !.trace = Append(@, [ev |-> "emit", cb |-> W.onChatUpdate,
                                         hash |-> hashString(Htmls[v]), cyc |-> p]) ]
    ELSE W

\* HashGate forgetting lastHash when there is no chat to emit
HashGateForgetting(W, p, v) ==
    IF v >= 1 /\ Htmls[v] # << >>
    THEN LET hash == hashString(Htmls[v])
         IN  IF hash # W.lastHash
             THEN [ W EXCEPT !.lastHash = hash,
                             !.trace = IF W.onChatUpdate # 0
                                       THEN Append(@, [ev |-> "emit", cb |-> W.onChatUpdate,
                                                       hash |-> hash, cyc |-> p])
                                       ELSE @ ]
             ELSE W
    ELSE [ W EXCEPT !.lastHash = NullHash ]

\* poll, lines 454-462: chat is the value captureChat returned (v >= 1) or
\* null; an exception of onChatUpdate(chat) leaves poll (it has no try)
HashGate(W, p, v) ==
    IF v >= 1 /\ Htmls[v] # << >>
    THEN LET hash == hashString(Htmls[v])
         IN  IF hash # W.lastHash
             THEN [ W EXCEPT !.lastHash = hash,
                             !.trace = IF W.onChatUpdate # 0
                                       THEN Append(@, [ev |-> "emit", cb |-> W.onChatUpdate,
                                                       hash |-> hash, cyc |-> p])
                                       ELSE @,
                             !.exc = W.onChatUpdate # 0 /\ W.thr,
                             !.procs[p].threw = @ \/ (W.onChatUpdate # 0 /\ W.thr) ]
             ELSE W
    ELSE W

\* NextTarget with a failure of one candidate ending the whole loop
NextTargetGiveUp(W, p) ==
    SetP(W, p, Returned([ W.procs[p] EXCEPT !.tried = @ + 1 ],
                        IF Kind(p) = "start" THEN -2 ELSE -1))

\* the for loop of startChatStream / getChatSnapshot moves to the next target,
\* or falls out of the loop and returns the failure result / null
NextTarget(W, p) ==
    LET f == W.procs[p]
        rest == Tail(f.tgts)
    IN  IF rest = << >>
        THEN SetP(W, p, Returned([f EXCEPT !.tried = @ + 1],
                                 IF Kind(p) = "start" THEN -2 ELSE -1))
        ELSE SetP(W, p, [ f EXCEPT !.pc = "connecting", !.tgts = rest, !.cdp = 0,
                                   !.wait = 0, !.idx = 0, !.pctx = 0, !.tried = @ + 1 ])

\* the end of poll(): in startChatStream the interval is set and success is
\* returned (lines 466-471); a timer's cycle just ends. When poll() threw,
\* startChatStream's catch (line 475) goes on with the next target and the
\* promise of a timer's cycle rejects (result -3)
PollEnd(W, p) ==
    IF W.exc
    THEN IF Kind(p) = "start" THEN NextTarget([ W EXCEPT !.exc = FALSE ], p)
         ELSE [ W EXCEPT !.exc = FALSE, !.procs[p] = Returned(@, -3) ]
    ELSE IF Kind(p) = "start"
    THEN [ W EXCEPT !.pollInterval = p, !.timers = @ \cup {p},
                    !.procs[p] = Returned(@, 1) ]
    ELSE [ W EXCEPT !.procs[p] = Returned(@, 1) ]

(* ----------------- captureChat and findCascadeContext ------------------ *)
RECURSIVE LocateStart(_, _, _, _, _), ScanNext(_, _, _, _, _), OnProbe(_, _, _, _, _, _, _, _)

\* Extracted returning whatever the evaluation answered
ExtractedRaw(v) == v

\* captureChat, lines 415-420: the value the evaluation answered when there is
\* one and it has no `error` property, else null (-1); a rejected call
\* (v = -1) is caught
Extracted(v) == IF v >= 1 THEN v ELSE -1

\* OnCapture with getChatSnapshot sharing poll's path through the hash gate
OnCaptureGated(W0, p, k, v) ==
    LET W == [ W0 EXCEPT !.procs[p].cap = v, !.procs[p].chat = Extracted(v) ]
        f == W.procs[p]
    IN  IF f.ph = "poll" THEN PollEnd(HashGate(W, p, f.chat), p)
        ELSE IF f.ph = "find"
             THEN SetP(wsClose(HashGate(W, p, f.chat), k), p, Returned(f, f.chat))
             ELSE SetP(HashGate(W, p, f.chat), p, Returned(f, f.chat))

\* what follows the evaluation of captureChat's SCRIPT answering v: captureChat
\* returns, and its caller goes on
OnCapture(W0, p, k, v) ==
    LET W == [ W0 EXCEPT !.procs[p].cap = v, !.procs[p].chat = Extracted(v) ]
        f == W.procs[p]
    IN  IF f.ph = "poll" THEN PollEnd(HashGate(W, p, f.chat), p)
        ELSE IF f.ph = "find"
             \* getChatSnapshot, lines 511-513: close and return chat
             THEN SetP(wsClose(W, k), p, Returned(f, f.chat))
             \* getChatSnapshot, line 523
             ELSE SetP(W, p, Returned(f, f.chat))

\* captureChat(cdp = k, contextId = c), lines 408-420
captureChat(W, p, k, c, fail) ==
    LET W1 == call(W, k, RemoteCapture(W, k, c, fail))
    IN  IF W.conns[k].st = "open"
        THEN SetP(W1, p, [ W1.procs[p] EXCEPT !.pc = "capture", !.cdp = k,
                                              !.wait = W.conns[k].idc ])
        ELSE IF wsSendThrows THEN OnCapture(W1, p, k, -1)
        ELSE SetP(W1, p, Hung(W1.procs[p]))

\* what follows `await findCascadeContext(...)` with result r
LocateDone(W, p, r, fail) ==
    LET f == [ W.procs[p] EXCEPT !.ctx = r, !.wait = 0, !.seen = {}, !.stay = {} ]
        k == f.cdp
        W1 == SetP(W, p, f)
    IN  IF f.ph = "poll"
        \* poll, lines 451-453; captureChat(null, ...) returns null
        THEN IF r = 0 \/ W1.connection = 0 THEN PollEnd(W1, p)
             ELSE captureChat(W1, p, W1.connection, r, fail)
        ELSE IF f.ph = "reuse"
        \* getChatSnapshot, lines 522-523
        THEN IF r = 0 \/ W1.connection = 0 THEN SetP(W1, p, Returned(f, -1))
             ELSE captureChat(W1, p, W1.connection, r, fail)
        ELSE IF Kind(p) = "snap"
        \* getChatSnapshot, lines 510-515
        THEN IF r # 0 THEN captureChat(W1, p, k, r, fail)
             ELSE NextTarget(wsClose(W1, k), p)
        \* startChatStream, lines 442-474: connection = cdp; await poll()
        ELSE IF r # 0
             THEN LocateStart([ W1 EXCEPT !.connection = k, !.conns[k].kept = TRUE,
                                          !.procs[p].loc = @ + 1 ],
                              p, k, "poll", fail)
             ELSE NextTarget(wsClose(W1, k), p)

\* CachedProbe whose catch keeps the cached id and returns it
CachedProbeTrusting(v) == IF v = 0 THEN "scan" ELSE "return"

\* the cached branch, lines 125-136, on the probe's answer v: the cached id is
\* returned, or the catch clears the cache, or control falls to the scan
CachedProbe(v) == IF v = -1 THEN "clear" ELSE IF v = 1 THEN "return" ELSE "scan"

\* one cdp.call('Runtime.evaluate', probe) of findCascadeContext, in the
\* cached branch (mode "probeCached") or in the scan (mode "scan", index i)
ProbeCall(W, p, k, mode, c, i, fail) ==
    LET W1 == call(W, k, RemoteProbe(W, k, c))
    IN  IF W.conns[k].st = "open"
        THEN SetP(W1, p, [ W1.procs[p] EXCEPT !.pc = mode, !.wait = W.conns[k].idc,
                                              !.pctx = c, !.idx = i,
                                              !.seen = IF mode = "scan" THEN @ \cup {c} ELSE @ ])
        ELSE IF wsSendThrows THEN OnProbe(W1, p, k, mode, c, i, -1, fail)
        ELSE SetP(W1, p, Hung(W1.procs[p]))

\* what follows the await of a probe of context c that answered v
OnProbe(W, p, k, mode, c, i, v, fail) ==
    LET hit == [ W EXCEPT !.procs[p].pf = @ \cup {c} ]
    IN  IF mode = "probeCached"
        THEN IF CachedProbe(v) = "return"
             \* line 132: return cdp.getCascadeContextId()
             THEN LocateDone(IF v = 1 THEN hit ELSE W, p, W.conns[k].cache, fail)
             ELSE IF CachedProbe(v) = "clear"
             \* line 135: catch: cdp.setCascadeContextId(null)
             THEN ScanNext([ W EXCEPT !.conns[k].cache = 0, !.procs[p].cfail = TRUE ],
                           p, k, 1, fail)
             ELSE ScanNext(W, p, k, 1, fail)
        ELSE IF v = 1
             \* lines 148-149
             THEN LocateDone([ hit EXCEPT !.conns[k].cache = c ], p, c, fail)
             ELSE ScanNext(W, p, k, i + 1, fail)

\* for (const ctx of cdp.contexts), lines 140-152, at iterator index i
ScanNext(W, p, k, i, fail) ==
    LET W1 == [ W EXCEPT !.procs[p].rescan = TRUE,
                         !.procs[p].stay = IF i = 1 THEN Range(W.conns[k].ctxs) ELSE @ ]
    IN  IF i > Len(W1.conns[k].ctxs) THEN LocateDone(W1, p, 0, fail)
        ELSE ProbeCall(W1, p, k, "scan", W1.conns[k].ctxs[i], i, fail)

\* findCascadeContext(cdp = k) called in phase ph of p, lines 123-137
LocateStart(W, p, k, ph, fail) ==
    LET c == W.conns[k].cache
        f == W.procs[p]
        W1 == SetP(W, p, [ f EXCEPT !.ph = ph, !.cdp = k, !.ctx = 0, !.pf = {},
                                    !.cfail = FALSE, !.rescan = FALSE,
                                    !.stale = IF c # 0 /\ c \notin Range(W.conns[k].ctxs)
                                              THEN c ELSE 0 ])
    IN  IF c # 0 THEN ProbeCall(W1, p, k, "probeCached", c, 0, fail)
        ELSE ScanNext(W1, p, k, 1, fail)

\* poll, line 448 and on
PollBegin(W, p, fail) ==
    IF W.connection = 0 THEN PollEnd(W, p)
    ELSE LocateStart(W, p, W.connection, "poll", fail)

(* --------------------------- stopChatStream ---------------------------- *)
\* stopChatStream without `pollInterval = null` and `connection = null`
stopChatStreamKeepRefs(W) ==
    LET W1 == IF W.pollInterval # 0 THEN [ W EXCEPT !.timers = @ \ {W.pollInterval} ] ELSE W
        W2 == IF W1.connection # 0 THEN wsClose(W1, W1.connection) ELSE W1
    IN  [ W2 EXCEPT !.lastHash = NullHash, !.onChatUpdate = 0 ]

\* stopChatStream without `onChatUpdate = null`
stopChatStreamKeepCallback(W) ==
    LET W1 == IF W.pollInterval # 0
              THEN [ W EXCEPT !.timers = @ \ {W.pollInterval}, !.pollInterval = 0 ]
              ELSE W
        W2 == IF W1.connection # 0
              THEN [ wsClose(W1, W1.connection) EXCEPT !.connection = 0 ]
              ELSE W1
    IN  [ W2 EXCEPT !.lastHash = NullHash ]

\* stopChatStream(), lines 486-497
stopChatStream(W) ==
    LET W1 == IF W.pollInterval # 0
              THEN [ W EXCEPT !.timers = @ \ {W.pollInterval}, !.pollInterval = 0 ]
              ELSE W
        W2 == IF W1.connection # 0
              THEN [ wsClose(W1, W1.connection) EXCEPT !.connection = 0 ]
              ELSE W1
    IN  [ W2 EXCEPT !.lastHash = NullHash, !.onChatUpdate = 0 ]

\* isStreaming(), lines 529-531
isStreamingW(W) == W.connection # 0 /\ W.pollInterval # 0

isStreaming == isStreamingW(Cur)

\* history: a stop() is recorded once however often it is repeated
StopMark == [ ev |-> "stop", cb |-> 0, hash |-> NullHash, cyc |-> 0 ]

MarkStop(tr) == IF tr # << >> /\ tr[Len(tr)] = StopMark THEN tr ELSE Append(tr, StopMark)

(* ------------------------------ actions -------------------------------- *)
Awaiting == { "probeCached", "scan", "capture" }

Frame == UNCHANGED << remote, wsSendThrows, disc, hs, dom >>

\* startChatStream is called: line 427, then await findTargets()
StartCall(p) ==
    /\ procs[p].pc = "idle"
    /\ \A q \in StartIds : q < p => procs[q].pc # "idle"
    /\ left.starts > 0
    /\ Commit([ Cur EXCEPT !.onChatUpdate = p, !.procs[p].pc = "findTargets",
                           !.procs[p].ph = "find",
                           !.procs[p].was = (connection # 0 /\ pollInterval # 0) ])
    /\ left' = [ left EXCEPT !.starts = @ - 1 ]
    /\ Frame

\* getChatSnapshot is called: line 503
SnapCall(p) ==
    /\ procs[p].pc = "idle"
    /\ \A q \in SnapIds : q < p => procs[q].pc # "idle"
    /\ left.snaps > 0
    /\ left' = [ left EXCEPT !.snaps = @ - 1 ]
    /\ Frame
    /\ Commit(IF connection = 0
              THEN [ Cur EXCEPT !.procs[p].pc = "findTargets", !.procs[p].ph = "find" ]
              ELSE LocateStart([ Cur EXCEPT !.procs[p].reused = connection ],
                               p, connection, "reuse", FALSE))

\* findTargets() resolves with list (lines 35-57, 431-433, 505-506)
FindTargetsDone(p, list) ==
    /\ procs[p].pc = "findTargets"
    /\ Range(list) \subseteq 1 .. left.targets
    /\ Commit(IF list = << >>
              THEN SetP(Cur, p, Returned(procs[p], -1))
              ELSE SetP(Cur, p, [ procs[p] EXCEPT !.pc = "connecting", !.tgts = list,
                                                  !.cands = Len(list) ]))
    /\ UNCHANGED left /\ Frame

\* connectCDP from the socket's 'open' event to `await call('Runtime.enable')`
\* (lines 65-104): idCounter = 1, contexts = [], the tracking handler is
\* installed (line 91) and Runtime.enable is sent (line 104); the remote side
\* announces the existing contexts, each with an executionContextCreated
\* event, and then answers: with a result, or with ~ok with an error payload
ConnectOpen(p, ok) ==
    /\ procs[p].pc = "connecting"
    /\ nconn < MaxConns
    /\ LET k == nconn + 1
           t == Head(procs[p].tgts)
           cs == CtxSeq(remote[t].ctxs, 1)
           W1 == [ Cur EXCEPT !.nconn = k,
                              !.conns[k] =
                                  [ NoConn EXCEPT !.st = "open", !.tgt = t, !.idc = 1,
                                                  !.on = InstallFirst, !.by = p,
                                                  !.inbox = [ i \in DOMAIN cs |->
                                                                [k |-> "created", id |-> cs[i],
                                                                 v |-> 0] ] ] ]
       IN  Commit(SetP(call(W1, k, IF ok THEN 1 ELSE -1), p,
                       [ procs[p] EXCEPT !.pc = "enable", !.cdp = k, !.wait = 1 ]))
    /\ UNCHANGED left /\ Frame

\* connectCDP: the socket errors or times out (lines 67-68): the caller's catch
ConnectFail(p) ==
    /\ procs[p].pc = "connecting"
    /\ Commit(NextTarget(Cur, p))
    /\ UNCHANGED left /\ Frame

\* connectCDP after `await call('Runtime.enable', {})` (line 104): an error
\* payload rejects the call and connectCDP throws into the catch of its
\* caller's loop, the socket staying open; else the settle period begins
OnEnable(W, p, k, v) ==
    IF v = -1 THEN NextTarget(W, p)
    ELSE [ W EXCEPT !.procs[p].pc = "settle", !.procs[p].wait = 0, !.conns[k].on = TRUE ]

\* what an awaiting call does with the response value v
Resume(W, p, k, v, fail) ==
    LET f == W.procs[p]
    IN  IF f.pc = "capture" THEN OnCapture(W, p, k, v)
        ELSE IF f.pc = "enable" THEN OnEnable(W, p, k, v)
        ELSE OnProbe(W, p, k, f.pc, f.pctx, f.idx, v, fail)

\* the handlers of session k (lines 78-85, 91-101) run on its next message
Receive(k, fail, thr) ==
    LET m == Head(conns[k].inbox)
        W1 == [ Cur EXCEPT !.conns[k].inbox = Tail(@),
                           !.conns[k].ctxs = IF conns[k].on THEN TrackContexts(@, m) ELSE @,
                           !.procs = [ q \in ProcIds |->
                                         IF @[q].pc = "scan" /\ @[q].cdp = k /\ m.k = "destroyed"
                                         THEN [ @[q] EXCEPT !.stay = @ \ {m.id} ] ELSE @[q] ],
                           !.thr = thr ]
        waiting == { p \in ProcIds : /\ procs[p].pc \in Awaiting \cup { "enable" }
                                     /\ procs[p].cdp = k
                                     /\ procs[p].wait = m.id }
    IN  IF m.k = "resp" /\ waiting # {}
        THEN Resume(W1, CHOOSE p \in waiting : TRUE, k, m.v, fail)
        ELSE W1

\* the socket of session k emits its next 'message' event
Deliver(k, fail) ==
    /\ conns[k].st \in { "open", "closed" }
    /\ conns[k].inbox # << >>
    /\ Commit(Receive(k, fail, FALSE))
    /\ UNCHANGED left /\ Frame

\* the same, the message being a captureChat response for which poll invokes
\* the consumer callback, and the callback throws
DeliverThrow(k) ==
    /\ conns[k].st \in { "open", "closed" }
    /\ conns[k].inbox # << >>
    /\ LET X == Receive(k, FALSE, TRUE)
       IN  Len(X.trace) > Len(trace) /\ Commit(X)
    /\ UNCHANGED left /\ Frame

\* await new Promise(r => setTimeout(r, 500)) ends; connectCDP returns
Settle(p) ==
    /\ procs[p].pc = "settle"
    /\ Commit(LocateStart([ Cur EXCEPT !.conns[procs[p].cdp].ready = TRUE ],
                          p, procs[p].cdp, "find", FALSE))
    /\ UNCHANGED left /\ Frame

\* a closed socket finishes closing: what was still in flight is lost and the
\* calls waiting on it never settle; nothing refers to the session any more
Drop(k) ==
    /\ conns[k].st = "closed"
    /\ Commit([ Cur EXCEPT !.conns[k] = [ NoConn EXCEPT !.st = "gone", !.tgt = conns[k].tgt,
                                                        !.kept = conns[k].kept ],
                           !.procs = [ p \in ProcIds |->
                                         IF /\ procs[p].pc \in Awaiting \cup { "enable" }
                                            /\ procs[p].cdp = k
                                         THEN Hung(procs[p]) ELSE procs[p] ] ])
    /\ UNCHANGED left /\ Frame

\* a scheduled interval timer fires: a new poll cycle begins (line 469)
Tick(t) ==
    /\ t \in timers
    /\ left.ticks > 0
    /\ \E p \in CycleIds :
          /\ procs[p].pc = "idle"
          /\ \A q \in CycleIds : q < p => procs[q].pc # "idle"
          /\ Commit(PollBegin(SetP(Cur, p, [ IdleProc EXCEPT !.pc = "run", !.ph = "poll" ]),
                            p, FALSE))
    /\ left' = [ left EXCEPT !.ticks = @ - 1 ]
    /\ Frame

\* stopChatStream is called (lines 486-497)
Stop ==
    /\ Commit([ stopChatStream(Cur) EXCEPT
                  !.trace = MarkStop(@),
                  !.procs = [ p \in ProcIds |->
                                IF Kind(p) = "start" /\ @[p].pc # "idle"
                                THEN [ @[p] EXCEPT !.stopped = TRUE ] ELSE @[p] ] ])
    /\ UNCHANGED left /\ Frame

\* findTargets goes through one more port (lines 38-54)
ProbePort ==
    /\ disc.i \in DOMAIN CDP_PORTS
    /\ disc' = [ disc EXCEPT !.i = @ + 1,
                             !.targets = PortStep(@, CDP_PORTS[disc.i], disc.ports[disc.i]) ]
    /\ UNCHANGED << connection, onChatUpdate, pollInterval, lastHash, conns, nconn, timers,
                    procs, left, remote, wsSendThrows, trace, hs, dom >>

\* the strings hashString is given: up to MaxStr of the characters "A", "B", "a"
HashInputs == UNION { [ 1 .. n -> { 65, 66, 97 } ] : n \in 0 .. MaxStr }

HashFrame ==
    UNCHANGED << connection, onChatUpdate, pollInterval, conns, nconn, timers, procs, left,
                 remote, wsSendThrows, disc, dom >>

\* hashString(str) is called and returns (lines 23-30)
HashCall(str) ==
    /\ Len(hs.log) < MaxHashCalls
    /\ hs' = [ hash |-> HashLoop(str),
               log |-> Append(hs.log, [ str |-> str, out |-> hashString(str),
                                        cyc |-> FALSE, emit |-> FALSE ]) ]
    /\ UNCHANGED << lastHash, trace >>
    /\ HashFrame

\* a poll cycle whose captureChat returned markup Htmls[v] goes through lines
\* 454-462
HashCycle(v) ==
    /\ Len(hs.log) < MaxHashCalls
    /\ LET W == HashGate(Cur, Min(CycleIds), v)
       IN  /\ lastHash' = W.lastHash
           /\ trace' = W.trace
           /\ hs' = [ hash |-> IF Htmls[v] # << >> THEN HashLoop(Htmls[v]) ELSE hs.hash,
                      log |-> Append(hs.log, [ str |-> Htmls[v],
                                               out |-> IF Htmls[v] # << >>
                                                       THEN hashString(Htmls[v])
                                                       ELSE NullHash,
                                               cyc |-> TRUE,
                                               emit |-> Len(W.trace) > Len(trace) ]) ]
    /\ HashFrame

\* the capture SCRIPT goes one step on (lines 162-406)
ScriptStep ==
    /\ dom.pc \in 1 .. ScriptSteps
    /\ dom' = [ ScriptStage(dom) EXCEPT !.pc = @ + 1 ]
    /\ UNCHANGED << connection, onChatUpdate, pollInterval, lastHash, conns, nconn, timers,
                    procs, left, remote, wsSendThrows, trace, disc, hs >>

(* --------------------------- the remote pages -------------------------- *)
\* the remote side pushes notification m to the open sessions of page t
Notify(cs, t, m) ==
    [ k \in ConnIds |-> IF cs[k].st = "open" /\ cs[k].tgt = t
                        THEN [ cs[k] EXCEPT !.inbox = Append(@, m) ] ELSE cs[k] ]

EnvFrame == UNCHANGED << connection, onChatUpdate, pollInterval, lastHash, nconn, timers,
                         procs, wsSendThrows, trace, disc, hs, dom >>

\* a context of page t is destroyed (a frame goes away, the page reloads)
EnvDestroy(t, c) ==
    /\ left.ctxs > 0
    /\ c \in remote[t].ctxs
    /\ remote' = [ remote EXCEPT ![t].ctxs = @ \ {c},
                                 ![t].host = IF @ = c THEN 0 ELSE @ ]
    /\ conns' = Notify(conns, t, [k |-> "destroyed", id |-> c, v |-> 0])
    /\ left' = [ left EXCEPT !.ctxs = @ - 1 ]
    /\ EnvFrame

\* a context of page t is created; with chat it holds #cascade from now on
EnvCreate(t, chat) ==
    /\ left.ctxs > 0
    /\ remote[t].next <= MaxCtx
    /\ remote' = [ remote EXCEPT ![t].ctxs = @ \cup {remote[t].next},
                                 ![t].next = @ + 1,
                                 ![t].host = IF chat THEN remote[t].next ELSE @ ]
    /\ conns' = Notify(conns, t, [k |-> "created", id |-> remote[t].next, v |-> 0])
    /\ left' = [ left EXCEPT !.ctxs = @ - 1 ]
    /\ EnvFrame

\* the remote side answers out of order: of the two messages next in flight
\* to session k, not both notifications, the later one arrives first
Overtake(k) ==
    /\ conns[k].st \in { "open", "closed" }
    /\ Len(conns[k].inbox) >= 2
    /\ "resp" \in { conns[k].inbox[1].k, conns[k].inbox[2].k }
    /\ conns' = [ conns EXCEPT ![k].inbox =
                     << @[2], @[1] >> \o SubSeq(@, 3, Len(@)) ]
    /\ UNCHANGED << left, remote >>
    /\ EnvFrame

\* #cascade of page t is removed from its document
EnvUnhost(t) ==
    /\ left.ctxs > 0
    /\ remote[t].host # 0
    /\ remote' = [ remote EXCEPT ![t].host = 0 ]
    /\ left' = [ left EXCEPT !.ctxs = @ - 1 ]
    /\ UNCHANGED conns /\ EnvFrame

\* the chat markup of page t changes to Htmls[h]
EnvHtml(t, h) ==
    /\ left.htmls > 0
    /\ remote[t].html # h
    /\ remote' = [ remote EXCEPT ![t].html = h ]
    /\ left' = [ left EXCEPT !.htmls = @ - 1 ]
    /\ UNCHANGED conns /\ EnvFrame

(* --------------------------- specification ----------------------------- *)
\* every page starts with two contexts, the first holding #cascade; page 1
\* may also start without the chat
InitRemotes ==
    { [ t \in Targets |-> [ ctxs |-> {1, 2}, host |-> IF t = 1 THEN h ELSE 1,
                             html |-> 1, next |-> 3 ] ] : h \in {0, 1} }

\* the initial state of the module (lines 15-18) in an environment that allows
\* the calls and changes b
InitSession(b) ==
    /\ connection = 0
    /\ onChatUpdate = 0
    /\ pollInterval = 0
    /\ lastHash = NullHash
    /\ conns = [ k \in ConnIds |-> NoConn ]
    /\ nconn = 0
    /\ timers = {}
    /\ procs = [ p \in ProcIds |-> IdleProc ]
    /\ left = b
    /\ remote \in InitRemotes
    /\ wsSendThrows \in BOOLEAN
    /\ trace = << >>

\* the same, no findTargets call being followed port by port
InitWith(b) == InitSession(b) /\ disc = NoDisc /\ hs = NoHash /\ dom = NoDom

\* the steps of startChatStream, stopChatStream and the sessions
Core ==
    \/ \E p \in StartIds : StartCall(p)
    \/ \E p \in StartIds \cup SnapIds, list \in TargetLists : FindTargetsDone(p, list)
    \/ \E p \in StartIds \cup SnapIds, ok \in BOOLEAN : ConnectOpen(p, ok)
    \/ \E p \in StartIds \cup SnapIds : ConnectFail(p)
    \/ \E k \in ConnIds, fail \in BOOLEAN : Deliver(k, fail)
    \/ \E p \in StartIds \cup SnapIds : Settle(p)
    \/ \E k \in ConnIds : Drop(k)
    \/ Stop

\* the interval timers fire
Timers == \E t \in StartIds : Tick(t)

\* a consumer callback that throws
Throws == \E k \in ConnIds : DeliverThrow(k)

\* getChatSnapshot is called
Snaps == \E p \in SnapIds : SnapCall(p)

\* the remote page's contexts come and go
CtxChange ==
    \/ \E t \in Targets, c \in CtxIds : EnvDestroy(t, c)
    \/ \E t \in Targets, chat \in BOOLEAN : EnvCreate(t, chat)
    \/ \E t \in Targets : EnvUnhost(t)

\* responses and notifications arrive in another order than they were caused
Reorder == \E k \in ConnIds : Overtake(k)

\* the remote page's chat markup changes
HtmlChange == \E t \in Targets, h \in HtmlIds : EnvHtml(t, h)

\* one startChatStream call, getChatSnapshot, timers and markup changes
Init ==
    InitWith([ starts |-> 1, snaps |-> MaxSnaps, ticks |-> MaxTicks, htmls |-> MaxHtml,
               ctxs |-> 0, targets |-> 1 ])

Next == Core \/ Timers \/ Snaps \/ HtmlChange

Spec == Init /\ [][Next]_vars

\* two startChatStream calls against one debugging target
InitRestart ==
    InitWith([ starts |-> MaxStarts, snaps |-> 0, ticks |-> RestartTicks,
               htmls |-> RestartHtml, ctxs |-> 0, targets |-> 1 ])

NextRestart == Core \/ Timers \/ HtmlChange

SpecRestart == InitRestart /\ [][NextRestart]_vars

\* one session whose page's contexts come and go
InitLocate ==
    InitWith([ starts |-> 1, snaps |-> 0, ticks |-> LocateTicks, htmls |-> 0,
               ctxs |-> LocateCtx, targets |-> 1 ])

NextLocate == Core \/ Timers \/ CtxChange

SpecLocate == InitLocate /\ [][NextLocate]_vars

\* the candidates of one discovery pass, tried by start and by snapshot
InitTargets ==
    InitWith([ starts |-> 1, snaps |-> MaxSnaps, ticks |-> 0, htmls |-> 0,
               ctxs |-> 0, targets |-> NumTargets ])

NextTargets == Core \/ Snaps

SpecTargets == InitTargets /\ [][NextTargets]_vars

\* one startChatStream call over two candidates, with a consumer callback
\* that may throw
InitThrow ==
    InitWith([ starts |-> 1, snaps |-> 0, ticks |-> ThrowTicks, htmls |-> 0,
               ctxs |-> 0, targets |-> NumTargets ])

NextThrow == Core \/ Timers \/ Throws

SpecThrow == InitThrow /\ [][NextThrow]_vars

\* one session whose page changes its contexts and its markup between cycles
InitSkip ==
    InitWith([ starts |-> 1, snaps |-> 0, ticks |-> SkipTicks, htmls |-> SkipHtml,
               ctxs |-> SkipCtx, targets |-> 1 ])

NextSkip == Core \/ Timers \/ CtxChange \/ HtmlChange

SpecSkip == InitSkip /\ [][NextSkip]_vars

\* one session used by overlapping timer cycles, its messages arriving in any
\* order
InitCalls ==
    InitWith([ starts |-> 1, snaps |-> 0, ticks |-> CallsTicks, htmls |-> 0,
               ctxs |-> CallsCtx, targets |-> 1 ])

NextCalls == Core \/ Timers \/ CtxChange \/ Reorder

SpecCalls == InitCalls /\ [][NextCalls]_vars

\* one streaming session used by a cycle and by getChatSnapshot while the
\* page's contexts come and go
InitShare ==
    InitWith([ starts |-> 1, snaps |-> MaxSnaps, ticks |-> ShareTicks, htmls |-> 0,
               ctxs |-> ShareCtx, targets |-> 1 ])

NextShare == Core \/ Timers \/ Snaps \/ CtxChange

SpecShare == InitShare /\ [][NextShare]_vars

\* one findTargets call, for every combination of answers of the ports
InitDiscovery ==
    /\ InitSession([ starts |-> 0, snaps |-> 0, ticks |-> 0, htmls |-> 0, ctxs |-> 0,
                     targets |-> 0 ])
    /\ remote[1].host = 1
    /\ ~wsSendThrows
    /\ hs = NoHash
    /\ dom = NoDom
    /\ disc \in { [ ports |-> ps, i |-> 1, targets |-> << >> ] :
                     ps \in [ DOMAIN CDP_PORTS -> Answers ] }

NextDiscovery == ProbePort

SpecDiscovery == InitDiscovery /\ [][NextDiscovery]_vars

\* hashString called on its own and by the cycles of a session whose consumer
\* callback is registered
InitHash ==
    /\ connection = 0
    /\ onChatUpdate = 1
    /\ pollInterval = 0
    /\ lastHash = NullHash
    /\ conns = [ k \in ConnIds |-> NoConn ]
    /\ nconn = 0
    /\ timers = {}
    /\ procs = [ p \in ProcIds |-> IdleProc ]
    /\ left = [ starts |-> 0, snaps |-> 0, ticks |-> 0, htmls |-> 0, ctxs |-> 0,
                targets |-> 0 ]
    /\ remote \in { r \in InitRemotes : r[1].host = 1 }
    /\ wsSendThrows = FALSE
    /\ trace = << >>
    /\ disc = NoDisc
    /\ hs = NoHash
    /\ dom = NoDom

NextHash ==
    \/ \E str \in HashInputs : HashCall(str)
    \/ \E v \in HtmlIds : HashCycle(v)

SpecHash == InitHash /\ [][NextHash]_vars

\* one run of the capture SCRIPT, for every #cascade tree
InitDom ==
    /\ InitSession([ starts |-> 0, snaps |-> 0, ticks |-> 0, htmls |-> 0, ctxs |-> 0,
                     targets |-> 0 ])
    /\ remote[1].host = 1
    /\ ~wsSendThrows
    /\ disc = NoDisc
    /\ hs = NoHash
    /\ dom \in { [ NoDom EXCEPT !.live = MkTree(sh), !.pc = 1 ] : sh \in Shapes }

NextDom == ScriptStep

SpecDom == InitDom /\ [][NextDom]_vars

(* ------------------------------ claims --------------------------------- *)
Last(tr) == tr[Len(tr)]

Emissions(tr) == SelectSeq(tr, LAMBDA e : e.ev = "emit")

\* the step in which the poll of p (a timer's cycle, or the first poll inside
\* startChatStream) resumes after captureChat and ends
PollCaptured(p) ==
    /\ procs[p].pc = "capture"
    /\ procs[p].ph = "poll"
    /\ procs'[p].pc = "done"

\* C1: at most one session is active: once the start() calls have returned,
\* at most one connection that startChatStream retained is open and at most
\* one interval timer is scheduled; and when a startChatStream that was called
\* while Streaming has retained its connection, the prior connection is closed
\* and the prior timer is cancelled.
C1_OneSession ==
    /\ (\A p \in StartIds : procs[p].pc \in { "idle", "done" })
          => /\ Cardinality({ k \in ConnIds : conns[k].kept /\ conns[k].st = "open" }) <= 1
             /\ Cardinality(timers) <= 1
    /\ \A p \in StartIds :
          (procs[p].was /\ procs[p].ph = "poll" /\ procs[p].cdp = connection)
              => /\ \A k \in ConnIds \ {connection} : ~(conns[k].kept /\ conns[k].st = "open")
                 /\ timers = {}

\* C2: in every poll cycle onChatUpdate is invoked only if the fingerprint of
\* the captured markup differs from lastHash (or lastHash is null), and then
\* lastHash becomes that fingerprint in the same step; a cycle whose
\* fingerprint equals lastHash invokes nothing and leaves lastHash unchanged.
C2_ChangeGated ==
    [][ /\ \A p \in ProcIds :
             PollCaptured(p) =>
               LET v == procs'[p].cap
               IN  IF v >= 1 /\ Htmls[v] # << >> /\ hashString(Htmls[v]) # lastHash
                   THEN /\ lastHash' = hashString(Htmls[v])
                        /\ trace' = IF onChatUpdate # 0
                                    THEN Append(trace, [ev |-> "emit", cb |-> onChatUpdate,
                                                        hash |-> lastHash', cyc |-> p])
                                    ELSE trace
                   ELSE lastHash' = lastHash /\ trace' = trace
        /\ (trace' # trace /\ Last(trace').ev = "emit") =>
             /\ \E p \in ProcIds : PollCaptured(p) /\ Last(trace').cyc = p
             /\ Last(trace').hash # lastHash
             /\ lastHash' = Last(trace').hash
      ]_vars

\* C2 witness: one cycle has emitted, and another has captured markup whose
\* fingerprint equals lastHash and has ended without invoking the consumer.
C2_Witness ==
    \E p, q \in ProcIds :
        /\ p # q
        /\ procs[p].pc = "done" /\ procs[q].pc = "done"
        /\ \E i \in DOMAIN trace : trace[i].ev = "emit" /\ trace[i].cyc = p
        /\ procs[q].cap >= 1
        /\ hashString(Htmls[procs[q].cap]) = lastHash
        /\ \A i \in DOMAIN trace : trace[i].ev = "emit" /\ trace[i].cyc # q

C4_StopIdempotent ==
    LET W1 == stopChatStream(Cur)
    IN  ~isStreamingW(W1) /\ stopChatStream(W1) = W1

\* C4 witness: stop() has acted on a Streaming session.
C4_Witness ==
    /\ trace # << >> /\ Last(trace) = StopMark
    /\ \E p \in StartIds : procs[p].pc = "done" /\ procs[p].res = 1
    /\ \E k \in ConnIds : conns[k].kept /\ conns[k].st = "closed"
    /\ ~isStreaming

\* C5: when a start() whose discovery found no endpoint returns,
\* isStreaming() is false, whatever the state was when it was called: also
\* when it was called while Streaming.
C5_FailedStartIdle ==
    [][ \A p \in StartIds :
          (/\ procs[p].was
           /\ procs[p].pc = "findTargets" /\ procs'[p].pc = "done" /\ procs'[p].res = -1)
              => ~(connection' # 0 /\ pollInterval' # 0) ]_vars

\* C6: a findCascadeContext call that starts with a cached id whose destroyed
\* notification has been processed returns that id only if a probe of this
\* call found it, and when the cached probe fails the scan runs.
C6_StaleRevalidated ==
    \A p \in ProcIds :
        procs[p].stale # 0 =>
            /\ procs[p].ctx = procs[p].stale => procs[p].stale \in procs[p].pf
            /\ procs[p].cfail => procs[p].rescan

\* C6 witness: the cached context was destroyed, its probe failed, and the
\* scan found the chat in another context.
C6_Witness ==
    \E p \in ProcIds :
        /\ procs[p].stale # 0 /\ procs[p].cfail /\ procs[p].rescan
        /\ procs[p].ctx # 0 /\ procs[p].ctx # procs[p].stale
        /\ procs[p].ctx \in procs[p].pf

\* C7: when stop() returns, the recurring schedule is cancelled, the active
\* connection is closed, lastHash and the session are cleared (the state is
\* Idle), and from then on no timer of a startChatStream called before that
\* stop() is scheduled.
C7_StopCancels ==
    [][ /\ (trace' # trace /\ Last(trace') = StopMark) =>
              /\ pollInterval' = 0
              /\ connection' = 0
              /\ connection # 0 => conns'[connection].st # "open"
              /\ lastHash' = NullHash
        /\ \A p \in StartIds : procs'[p].stopped => p \notin timers' ]_vars

\* C8: a step of getChatSnapshot leaves connection (and its socket), the timers,
\* onChatUpdate and lastHash unchanged and invokes no consumer; called while a
\* session is retained it works on that session and opens no socket.
C8_SnapshotFrame ==
    [][ \A p \in SnapIds :
          procs'[p] # procs[p] =>
              /\ connection' = connection
              /\ connection # 0 => conns'[connection].st = conns[connection].st
              /\ pollInterval' = pollInterval /\ timers' = timers
              /\ onChatUpdate' = onChatUpdate
              /\ lastHash' = lastHash
              /\ trace' = trace
              /\ (procs[p].pc = "idle" /\ connection # 0) =>
                    procs'[p].reused = connection /\ procs'[p].pc \notin { "findTargets", "connecting" }
              /\ procs[p].reused # 0 => nconn' = nconn ]_vars

\* C8 witness: getChatSnapshot works on the streaming session while a timer's
\* poll cycle is in progress on it.
C8_Witness ==
    \E p \in SnapIds, q \in CycleIds :
        /\ procs[p].reused # 0 /\ procs[p].pc \in Awaiting /\ procs[p].cdp = connection
        /\ procs[q].pc \in Awaiting /\ procs[q].cdp = connection
        /\ isStreaming

\* C9: without a session, getChatSnapshot returns null only if no candidate
\* yields a snapshot: a candidate whose extraction fails does not end the search.
C9_SearchesAllCandidates ==
    \A p \in SnapIds :
        (procs[p].pc = "done" /\ procs[p].reused = 0 /\ procs[p].res = -1)
            => procs[p].tried = procs[p].cands

\* C10: whenever no start() is in progress, connection is non-null exactly
\* when an interval timer is scheduled.
C10_ConnectionIffTimer ==
    (\A p \in StartIds : procs[p].pc \in { "idle", "done" })
        => /\ (connection # 0) <=> (pollInterval # 0)
           /\ (connection # 0) <=> (timers # {})

\* C11: a successful startChatStream streams from the first candidate on which
\* connectCDP and findCascadeContext both succeeded: when findCascadeContext
\* succeeds the candidate's session becomes `connection`, no candidate is
\* connected to after that, the call invokes the consumer at most once, and it
\* returns success in the step that ends its first poll and schedules the timer.
C11_FirstLocated ==
    [][ \A p \in StartIds :
          /\ (procs[p].loc = 0 /\ procs'[p].loc = 1)
                => /\ connection' # 0
                   /\ conns'[connection'].tgt = Head(procs[p].tgts)
          /\ procs'[p].loc >= 1 => procs'[p].pc \notin { "connecting", "settle" }
          /\ procs'[p].loc <= 1
          /\ Cardinality({ i \in DOMAIN trace' :
                             trace'[i].ev = "emit" /\ trace'[i].cyc = p }) <= 1
          /\ (procs[p].pc # "done" /\ procs'[p].pc = "done" /\ procs'[p].res = 1)
                => /\ procs[p].ph = "poll"
                   /\ p \notin timers /\ p \in timers'
                   /\ pollInterval' = p ]_vars

\* C12: in startChatStream, when findCascadeContext returns null on a connected
\* candidate its socket is closed in that step, before the next candidate is
\* tried; a connectCDP that fails only moves the loop to the next candidate;
\* and a call on which no candidate has been located leaves connection,
\* pollInterval and the timers as they are (Idle stays Idle) and can only
\* return a failure result.
C12_FailedCandidates ==
    [][ \A p \in StartIds :
          LET more == Len(procs[p].tgts) > 1
              moved == IF more
                       THEN procs'[p].pc = "connecting" /\ procs'[p].tgts = Tail(procs[p].tgts)
                       ELSE procs'[p].pc = "done" /\ procs'[p].res = -2
          IN  /\ (/\ procs[p].ph = "find" /\ procs[p].pc \in { "settle", "probeCached", "scan" }
                  /\ procs'[p].pc \in { "connecting", "done" })
                    => conns'[procs[p].cdp].st # "open" /\ moved
              /\ (/\ procs[p].pc \in { "connecting", "enable" }
                  /\ procs'[p].pc \notin { "enable", "settle", "hung" }
                  /\ << procs'[p].pc, procs'[p].tgts >> # << procs[p].pc, procs[p].tgts >>)
                    => moved
              /\ (procs[p].pc # procs'[p].pc /\ procs'[p].loc = 0)
                    => /\ procs'[p].pc = "done" => procs'[p].res < 0
                       /\ connection' = connection
                       /\ pollInterval' = pollInterval /\ timers' = timers ]_vars

\* C12 witness: of two candidates the first connected, had no chat and was
\* closed, the second failed to connect, and the call returned the failure.
C12_Witness ==
    \E p \in StartIds :
        /\ procs[p].pc = "done" /\ procs[p].res = -2
        /\ procs[p].cands = 2 /\ procs[p].tried = 2 /\ procs[p].loc = 0
        /\ nconn = 1 /\ conns[1].tgt = 1 /\ conns[1].st \in { "closed", "gone" }
        /\ \A q \in SnapIds : procs[q].pc = "idle"
        /\ ~isStreaming

\* C13: a timer's poll cycle never cancels the timer, clears or closes the
\* connection or rejects, and a cycle that ends with no context located, with
\* no chat captured or with empty markup invokes no consumer and leaves
\* lastHash unchanged.
C13_SkipCycle ==
    [][ \A p \in CycleIds :
          procs'[p].pc # procs[p].pc =>
              /\ timers' = timers /\ pollInterval' = pollInterval
              /\ connection' = connection
              /\ connection # 0 => conns'[connection].st = conns[connection].st
              /\ (/\ procs'[p].pc = "done"
                  /\ \/ procs'[p].ctx = 0
                     \/ procs'[p].cap < 1
                     \/ Htmls[procs'[p].cap] = << >>)
                    => /\ lastHash' = lastHash /\ trace' = trace
                       /\ procs'[p].res = 1 ]_vars

\* C13 witness: after an emission one cycle has captured empty markup, another
\* cycle has run as well, and the session is still streaming.
C13_Witness ==
    \E p, q \in CycleIds :
        /\ p # q /\ procs[p].pc = "done" /\ procs[q].pc = "done"
        /\ procs[p].cap >= 1 /\ Htmls[procs[p].cap] = << >>
        /\ lastHash # NullHash
        /\ isStreaming /\ timers # {}

\* C14: an exception of the consumer callback stays inside the poll that
\* invoked it: a timer's cycle still resolves, and a startChatStream whose
\* first poll invoked it still schedules the timer and returns success.
C14_ConsumerIsolated ==
    \A p \in ProcIds :
        procs[p].threw =>
            /\ procs[p].pc = "done" /\ procs[p].res = 1
            /\ Kind(p) = "start" => (p \in timers \/ procs[p].stopped)

\* C15: no two poll cycles of the poller are in progress at the same time: at
\* most one timer's cycle is suspended in a remote call.
C15_NoOverlap ==
    Cardinality({ p \in CycleIds : procs[p].pc \in Awaiting }) <= 1

\* C16: no call stays pending forever after its connection is closed: a
\* startChatStream, poll cycle or getChatSnapshot that was awaiting a remote
\* call when the socket closed is resumed with a failure, never left suspended
\* on a promise that cannot settle.
C16_PendingCallsFail ==
    \A p \in ProcIds : procs[p].pc # "hung"

\* C17: in every state the cascadeContextId of the current session, when it
\* is not null, is the id of a member of that session's contexts.
C17_CacheLive ==
    connection # 0 =>
        \/ conns[connection].cache = 0
        \/ conns[connection].cache \in Range(conns[connection].ctxs)

\* the calls pending on session k: the ids awaited
Pending(k) == { p \in ProcIds : procs[p].pc \in Awaiting /\ procs[p].cdp = k }

\* C18: each call on a session takes an id greater than every id used on it
\* before, the calls pending on a session have different ids, and a call is
\* settled only by the response with its id, whose value it hands on; a
\* notification or a response with another id settles nothing.
C18_CallIds ==
    [][ /\ \A k \in ConnIds :
             /\ \A p, q \in Pending(k)' : p # q => procs'[p].wait # procs'[q].wait
             /\ \A i \in DOMAIN conns'[k].inbox :
                   conns'[k].inbox[i].k = "resp" =>
                       /\ conns'[k].inbox[i].id < conns'[k].idc
                       /\ \A j \in DOMAIN conns'[k].inbox :
                             (j # i /\ conns'[k].inbox[j].k = "resp")
                                 => conns'[k].inbox[j].id # conns'[k].inbox[i].id
             /\ conns[k].st = "open" /\ conns'[k].st = "open" =>
                   /\ conns'[k].idc >= conns[k].idc
                   /\ \A p \in Pending(k)' :
                         (p \notin Pending(k) \/ procs'[p].wait # procs[p].wait)
                             => /\ procs'[p].wait >= conns[k].idc
                                /\ procs'[p].wait < conns'[k].idc
        /\ \A p \in ProcIds :
             (/\ procs[p].pc \in Awaiting
              /\ procs'[p].pc # "hung"
              /\ << procs'[p].pc, procs'[p].wait >> # << procs[p].pc, procs[p].wait >>)
                => LET box == conns[procs[p].cdp].inbox
                   IN  /\ box # << >>
                       /\ Head(box).k = "resp"
                       /\ Head(box).id = procs[p].wait
                       /\ procs[p].pc = "capture" => procs'[p].cap = Head(box).v
                       /\ \A q \in ProcIds \ {p} :
                             procs[q].pc \in Awaiting
                                 => << procs'[q].pc, procs'[q].wait >>
                                        = << procs[q].pc, procs[q].wait >>
      ]_vars

\* C18 witness: two calls are pending on one session, a notification is in
\* flight to it, and the message that arrives next is the response to the
\* call made last.
C18_Witness ==
    \E k \in ConnIds :
        /\ Cardinality(Pending(k)) = 2
        /\ \E i \in DOMAIN conns[k].inbox : conns[k].inbox[i].k # "resp"
        /\ conns[k].inbox # << >>
        /\ Head(conns[k].inbox).k = "resp"
        /\ \A p \in Pending(k) : procs[p].wait <= Head(conns[k].inbox).id

\* C19: findTargets never fails; after any number of ports its list is the
\* concatenation, in the order of CDP_PORTS, of the retained entries of each
\* port that answered with a list, in the order of that list; a port that is
\* closed or answers with an error adds nothing and leaves the entries of the
\* other ports as they are. In the worst case the list is empty.
C19_OrderedUnion ==
    disc.i # 0 =>
        LET kept(n) == IF disc.ports[n].kind = "list"
                       THEN SelectSeq(disc.ports[n].list, Matches) ELSE << >>
            union[n \in 0 .. Len(CDP_PORTS)] ==
                IF n = 0 THEN << >>
                ELSE union[n - 1]
                        \o [ j \in DOMAIN kept(n) |-> [ t |-> kept(n)[j], port |-> CDP_PORTS[n] ] ]
        IN  /\ disc.i \in 1 .. Len(CDP_PORTS) + 1
            /\ disc.targets = union[disc.i - 1]
            /\ (\A n \in DOMAIN CDP_PORTS : disc.ports[n].kind # "list") => disc.targets = << >>

\* C19 witness: findTargets has gone through all ports; the first answered
\* with two different retained entries, the second did not answer with a list,
\* the third answered with a retained entry and one that is not retained.
C19_Witness ==
    /\ disc.i = Len(CDP_PORTS) + 1
    /\ disc.ports[1].kind = "list"
    /\ Len(disc.ports[1].list) = 2
    /\ disc.ports[1].list[1] # disc.ports[1].list[2]
    /\ \A j \in 1 .. 2 : Matches(disc.ports[1].list[j])
    /\ disc.ports[2].kind # "list"
    /\ disc.ports[3].kind = "list"
    /\ Len(disc.ports[3].list) = 2
    /\ Matches(disc.ports[3].list[1])
    /\ ~Matches(disc.ports[3].list[2])
    /\ Len(disc.targets) = 3

\* C20 as stated: findTargets retains exactly the entries that match the
\* heuristic (url contains the workbench marker, or title contains the product
\* name, or type is "page"), each tagged with its port; and when the first
\* port is closed, the second answers with one entry titled "Workbench" and
\* the third with two entries that do not match, the result is exactly the
\* entry of the second port, tagged with the second port.
C20_Scenario ==
    disc.i = Len(CDP_PORTS) + 1 =>
        LET heuristic(t) == \/ Includes(t.url, "workbench.html")
                            \/ Includes(t.title, "Antigravity")
                            \/ t.type = "page"
            from(n) == SelectSeq(disc.targets, LAMBDA x : x.port = CDP_PORTS[n])
        IN  /\ \A j \in DOMAIN disc.targets :
                    \E n \in DOMAIN CDP_PORTS : disc.targets[j].port = CDP_PORTS[n]
            /\ \A n \in DOMAIN CDP_PORTS :
                    [ j \in DOMAIN from(n) |-> from(n)[j].t ]
                        = SelectSeq(disc.ports[n].list, heuristic)
            /\ (/\ disc.ports[1].kind = "closed"
                /\ disc.ports[2].kind = "list"
                /\ Len(disc.ports[2].list) = 1
                /\ disc.ports[2].list[1].title = << "Workbench" >>
                /\ disc.ports[3].kind = "list"
                /\ Len(disc.ports[3].list) = 2
                /\ \A j \in 1 .. 2 : ~heuristic(disc.ports[3].list[j]))
                   => disc.targets = << [ t |-> disc.ports[2].list[1], port |-> CDP_PORTS[2] ] >>

\* C20: findTargets retains exactly the entries that match the heuristic (url
\* contains the workbench marker, or title contains the product name, or type
\* is "page"), each tagged with its port; and when the first port is closed,
\* the second answers with one entry titled "Workbench" whose type is "page"
\* or whose url contains the marker, and the third with two entries that match
\* none of the three tests (so neither has the type "page"), the result is
\* exactly the entry of the second port, tagged with the second port.
C20_RetainsMatching ==
    disc.i = Len(CDP_PORTS) + 1 =>
        LET heuristic(t) == \/ Includes(t.url, "workbench.html")
                            \/ Includes(t.title, "Antigravity")
                            \/ t.type = "page"
            from(n) == SelectSeq(disc.targets, LAMBDA x : x.port = CDP_PORTS[n])
        IN  /\ \A j \in DOMAIN disc.targets :
                    \E n \in DOMAIN CDP_PORTS : disc.targets[j].port = CDP_PORTS[n]
            /\ \A n \in DOMAIN CDP_PORTS :
                    [ j \in DOMAIN from(n) |-> from(n)[j].t ]
                        = SelectSeq(disc.ports[n].list, heuristic)
            /\ (/\ disc.ports[1].kind = "closed"
                /\ disc.ports[2].kind = "list"
                /\ Len(disc.ports[2].list) = 1
                /\ disc.ports[2].list[1].title = << "Workbench" >>
                /\ \/ disc.ports[2].list[1].type = "page"
                   \/ Includes(disc.ports[2].list[1].url, "workbench.html")
                /\ disc.ports[3].kind = "list"
                /\ Len(disc.ports[3].list) = 2
                /\ \A j \in 1 .. 2 : ~heuristic(disc.ports[3].list[j]))
                   => disc.targets = << [ t |-> disc.ports[2].list[1], port |-> CDP_PORTS[2] ] >>

\* C20 witness: the scenario with the second port's entry of type "page":
\* findTargets is through, and its result is that entry alone.
C20_Witness ==
    /\ disc.i = Len(CDP_PORTS) + 1
    /\ disc.ports[1].kind = "closed"
    /\ disc.ports[2].kind = "list"
    /\ Len(disc.ports[2].list) = 1
    /\ disc.ports[2].list[1].title = << "Workbench" >>
    /\ disc.ports[2].list[1].type = "page"
    /\ disc.ports[3].kind = "list"
    /\ Len(disc.ports[3].list) = 2
    /\ disc.ports[3].list[1] # disc.ports[3].list[2]
    /\ \A j \in 1 .. 2 : ~Matches(disc.ports[3].list[j])
    /\ disc.targets = << [ t |-> disc.ports[2].list[1], port |-> CDP_PORTS[2] ] >>

\* C21: hashString is a function of its argument alone: any two calls with
\* the same string return the same value, whatever was hashed in between and
\* whatever the module state is; so a cycle that extracts the markup the
\* cycle before it extracted causes no emission.
C21_Deterministic ==
    /\ \A i, j \in DOMAIN hs.log :
          hs.log[i].str = hs.log[j].str /\ hs.log[i].out # NullHash /\ hs.log[j].out # NullHash
              => hs.log[i].out = hs.log[j].out
    /\ \A i, j \in DOMAIN hs.log :
          (/\ i < j
           /\ hs.log[i].cyc
           /\ hs.log[j].cyc
           /\ hs.log[i].str = hs.log[j].str
           /\ \A n \in (i + 1) .. (j - 1) : ~hs.log[n].cyc)
              => ~hs.log[j].emit

\* C21 witness: a cycle has extracted a markup and emitted it, hashString
\* has then hashed another string, and the next cycle has extracted the
\* first markup again and emitted nothing.
C21_Witness ==
    /\ Len(hs.log) = 3
    /\ hs.log[1].cyc /\ hs.log[1].emit
    /\ ~hs.log[2].cyc /\ hs.log[2].out # hs.log[1].out
    /\ hs.log[3].cyc /\ hs.log[3].str = hs.log[1].str /\ ~hs.log[3].emit
    /\ hs.log[3].out = hs.log[1].out

\* C22: captureChat never propagates a failure: when the evaluation is
\* rejected, answers without a value, or answers the error payload of an
\* absent chat root, captureChat returns null and its caller goes on without
\* an exception; it returns a snapshot only when the evaluation answered a
\* value without error marker, and the consumer is invoked only with such a
\* snapshot.
C22_ExtractNeverThrows ==
    [][ \A p \in ProcIds :
          /\ (procs[p].pc = "capture" /\ procs'[p].pc \notin { "capture", "hung" })
                => LET v == Head(conns[procs[p].cdp].inbox).v
                   IN  /\ procs'[p].cap = v
                       /\ v < 1 => /\ procs'[p].chat = -1
                                   /\ trace' = trace
                                   /\ procs'[p].pc = "done"
                                   /\ procs'[p].res = IF procs[p].ph = "poll" THEN 1 ELSE -1
                       /\ v >= 1 => procs'[p].chat = v
          /\ (Len(trace') > Len(trace) /\ Last(trace').ev = "emit" /\ Last(trace').cyc = p)
                => /\ procs[p].pc = "capture"
                   /\ Head(conns[procs[p].cdp].inbox).v >= 1
                   /\ procs'[p].chat = Head(conns[procs[p].cdp].inbox).v
      ]_vars

\* C22 witness: one cycle's capture evaluation answered the error payload of
\* an absent chat root and another's answered without a value; both cycles
\* have ended with captureChat returning null.
C22_Witness ==
    \E p, q \in CycleIds :
        /\ procs[p].pc = "done" /\ procs[p].cap = 0 /\ procs[p].chat = -1
        /\ procs[q].pc = "done" /\ procs[q].cap = -2 /\ procs[q].chat = -1

\* C23: when the last direct child of the chat root contains an input
\* element and no message-marked descendant, the markup the script returns
\* does not contain that child at all.
C23_LastChildRemoved ==
    (/\ dom.pc = ScriptSteps + 1
     /\ dom.live # << >>
     /\ Has(dom.live[Len(dom.live)], { "input" })
     /\ ~Has(dom.live[Len(dom.live)], { "msg" }))
        => \A c \in DOMAIN dom.clone : dom.clone[c].id # Len(dom.live)

\* C24: when findCascadeContext probes a cached context and the probe is
\* rejected or answers found = false, the cache is null before the scan
\* begins; and whenever findCascadeContext returns null, the cache of its
\* session is null.
C24_CacheCleared ==
    [][ \A p \in ProcIds :
          /\ (/\ procs[p].pc = "probeCached"
              /\ procs'[p].pc \notin { "probeCached", "hung" }
              /\ Head(conns[procs[p].cdp].inbox).v # 1)
                => conns'[procs[p].cdp].cache = 0
          /\ (/\ procs[p].pc \in { "probeCached", "scan" }
              /\ procs'[p].pc \notin { "probeCached", "scan", "hung" }
              /\ Head(conns[procs[p].cdp].inbox).v # 1)
                => conns'[procs[p].cdp].cache = 0
      ]_vars

\* C25: the scan of findCascadeContext caches and returns the context whose
\* probe answered found = true, and returns null only when it has probed
\* every context that was in the live set for the whole scan, also when
\* notifications change the live set while a probe is awaited.
C25_ScanComplete ==
    [][ \A p \in ProcIds :
          (/\ procs[p].pc = "scan"
           /\ procs'[p].pc \notin { "scan", "hung" })
              => LET k == procs[p].cdp
                     v == Head(conns[k].inbox).v
                 IN  /\ v = 1 => /\ conns'[k].cache = procs[p].pctx
                                  /\ procs[p].pctx \in procs'[p].pf
                                  /\ (procs[p].ph # "find" \/ Kind(p) = "snap")
                                         => procs'[p].ctx = procs[p].pctx
                     /\ v # 1 => /\ procs'[p].ctx = 0
                                  /\ procs[p].idx >= Len(conns[k].ctxs)
                                  /\ procs[p].stay \subseteq procs[p].seen
      ]_vars

\* `contexts` after the handler has run on all the messages of box
RECURSIVE ApplyAll(_, _)
ApplyAll(ctxs, box) ==
    IF box = << >> THEN ctxs ELSE ApplyAll(TrackContexts(ctxs, Head(box)), Tail(box))

\* C26: a session's `contexts` changes only when a notification arrives: a
\* created notification appends its context, a destroyed notification removes
\* the context with its id and changes nothing when no such context is
\* tracked, a response changes nothing; once the messages in flight have
\* arrived, `contexts` holds exactly the page's live contexts in the order of
\* their creation.
C26_ContextTracking ==
    /\ [](\A k \in ConnIds :
            conns[k].st = "open"
                => /\ ApplyAll(conns[k].ctxs, conns[k].inbox) = CtxSeq(remote[conns[k].tgt].ctxs, 1)
                   /\ \A id \in CtxIds \ Range(conns[k].ctxs) :
                         TrackContexts(conns[k].ctxs, [k |-> "destroyed", id |-> id, v |-> 0])
                             = conns[k].ctxs)
    /\ [][ \A k \in ConnIds :
             (conns[k].st \in { "open", "closed" } /\ conns'[k].st \in { "open", "closed" })
                => LET old == conns[k].ctxs
                       new == conns'[k].ctxs
                       box == conns[k].inbox
                       took == box # << >> /\ conns'[k].inbox = Tail(box)
                   IN  /\ new # old => took /\ Head(box).k \in { "created", "destroyed" }
                       /\ (took /\ Head(box).k = "resp") => new = old
                       /\ (took /\ Head(box).k = "created") => new = Append(old, Head(box).id)
                       /\ (took /\ Head(box).k = "destroyed")
                             => new = SelectSeq(old, LAMBDA c : c # Head(box).id)
         ]_vars

\* C26 witness: a session has tracked the destruction of one of the contexts
\* it began with and the creation of a new one, and has responses in flight.
C26_Witness ==
    \E k \in ConnIds :
        /\ conns[k].st = "open"
        /\ conns[k].ctxs = << 2, 3 >>
        /\ conns[k].inbox # << >>
        /\ \A i \in DOMAIN conns[k].inbox : conns[k].inbox[i].k = "resp"

\* C27: connectCDP installs the context tracking handler before it sends
\* Runtime.enable, so every context announced after that is tracked or still
\* in flight; it returns the session only after the response to Runtime.enable
\* has arrived and the settle period has then elapsed, and no other call is
\* made on a session before that.
C27_OpenOrder ==
    /\ [](\A k \in ConnIds :
            conns[k].st = "open"
                => /\ conns[k].on
                   /\ \A c \in remote[conns[k].tgt].ctxs :
                         \/ c \in Range(conns[k].ctxs)
                         \/ \E i \in DOMAIN conns[k].inbox :
                               conns[k].inbox[i] = [k |-> "created", id |-> c, v |-> 0])
    /\ [][ /\ \A k \in ConnIds :
                /\ (conns'[k].idc > conns[k].idc /\ conns[k].idc >= 2) => conns'[k].ready
                /\ (conns'[k].ready /\ ~conns[k].ready)
                      => /\ \E p \in ProcIds : procs[p].pc = "settle" /\ procs[p].cdp = k
                         /\ conns[k].idc = 2
                         /\ \A i \in DOMAIN conns[k].inbox :
                               ~(conns[k].inbox[i].k = "resp" /\ conns[k].inbox[i].id = 1)
           /\ \A p \in ProcIds :
                procs'[p].pc = "settle" /\ procs[p].pc # "settle"
                    => /\ procs[p].pc = "enable"
                       /\ Head(conns[procs[p].cdp].inbox) = [k |-> "resp", id |-> 1, v |-> 1]
         ]_vars

\* C27 witness: a connectCDP call is in its settle period, Runtime.enable
\* answered, and its session has tracked the two contexts announced on
\* enabling and one created since.
C27_Witness ==
    \E p \in ProcIds :
        /\ procs[p].pc = "settle"
        /\ conns[procs[p].cdp].ctxs = << 1, 2, 3 >>
        /\ ~conns[procs[p].cdp].ready

\* C28: once the script has applied its canvas replacements, every image it
\* made by rasterizing a non-terminal canvas of the live tree stands in the
\* clone where the clone of that canvas stood, and no image stands in the
\* place of another canvas.
C28_CanvasMatch ==
    dom.pc = 6 =>
        /\ \A n \in DOMAIN dom.repl :
              \E c \in DOMAIN dom.clone : \E j \in DOMAIN dom.clone[c].kids :
                  dom.clone[c].kids[j]
                      = [ id |-> dom.repl[n].dataUrl, kind |-> "img", src |-> dom.repl[n].dataUrl ]
        /\ \A c \in DOMAIN dom.clone : \A j \in DOMAIN dom.clone[c].kids :
              dom.clone[c].kids[j].kind = "img"
                  => dom.clone[c].kids[j].src = dom.clone[c].kids[j].id

\* C29: a getChatSnapshot call that uses the streaming session writes
\* neither the cached context id of that session nor lastHash, in any of its
\* steps and however the cycles are interleaved with it.
C29_SingleWriter ==
    [][ \A p \in SnapIds :
          (/\ procs'[p].reused # 0
           /\ << procs'[p].pc, procs'[p].wait >> # << procs[p].pc, procs[p].wait >>
           /\ procs'[p].pc # "hung")
              => /\ conns'[procs'[p].reused].cache = conns[procs'[p].reused].cache
                 /\ lastHash' = lastHash
      ]_vars

\* C30: once a startChatStream or getChatSnapshot call has returned, every
\* connection it opened is closed or is the one retained in `connection`.
C30_NoLeak ==
    \A k \in ConnIds :
        (/\ conns[k].st = "open"
         /\ conns[k].by # 0
         /\ procs[conns[k].by].pc = "done")
            => k = connection

\* C31: a stop() called while a startChatStream call was in progress wins: once
\* that call has returned (no start being called after it), isStreaming() is
\* false, connection is null and no interval timer is scheduled.
C31_StopWins ==
    \A p \in StartIds :
        (/\ procs[p].stopped /\ procs[p].pc = "done"
         /\ \A q \in StartIds : q > p => procs[q].pc = "idle")
            => ~isStreaming /\ connection = 0 /\ pollInterval = 0 /\ timers = {}

\* C32: a startChatStream call that was made while a session was Streaming
\* (no stop() since) and that has returned a failure result has left that
\* session as it was: connection and the timer are the earlier call's, and the
\* registered consumer callback is the earlier one, not the failed call's.
C32_FailedStartFrame ==
    \A p \in StartIds :
        (/\ procs[p].was /\ procs[p].pc = "done" /\ procs[p].res < 0
         /\ \A q \in StartIds : (q <= p => ~procs[q].stopped) /\ (q > p => procs[q].pc = "idle"))
            => /\ connection # 0 /\ conns[connection].by \in StartIds \ {p}
               /\ pollInterval \in StartIds \ {p} /\ pollInterval \in timers
               /\ onChatUpdate \in StartIds \ {p}

\* C33: after stop() and until the next start() (onChatUpdate is null exactly
\* then) no step sets lastHash while no start() is in progress, also not the
\* step in which a timer's poll cycle in flight at the stop() resumes; and the first poll of a startChatStream called after a stop(), no
\* stop() coming during it, invokes the consumer when it extracts non-empty
\* markup.
C33_StaysCleared ==
    [][ /\ (/\ onChatUpdate = 0 /\ lastHash = NullHash
             /\ \A p \in StartIds : procs[p].pc \in { "idle", "done" })
              => lastHash' = NullHash
        /\ \A p, q \in StartIds :
              (/\ q < p /\ procs[q].stopped /\ ~procs[p].stopped
               /\ PollCaptured(p)
               /\ procs'[p].cap >= 1 /\ Htmls[procs'[p].cap] # << >>)
                  => /\ trace' # trace
                     /\ Last(trace') = [ ev |-> "emit", cb |-> onChatUpdate,
                                         hash |-> hashString(Htmls[procs'[p].cap]), cyc |-> p ]
      ]_vars

\* C34: the consumer callback of a startChatStream call is never invoked once
\* stop() has been called after that call: every invocation is of the callback
\* of a start call that no stop() has followed, and while no callback is
\* registered (from stop() to the next start() call) nothing is invoked.
C34_NoCallAfterStop ==
    [][ (trace' # trace /\ Last(trace').ev = "emit")
            => /\ onChatUpdate # 0
               /\ Last(trace').cb = onChatUpdate
               /\ ~procs[onChatUpdate].stopped ]_vars

\* C34 witness: two start calls have left two timers; a poll cycle was in
\* flight when stop() ran, it has resumed after the stop() with non-empty
\* markup and passed the hash gate (lastHash is set again), and nothing was
\* invoked after the stop(); the timer of the first start is still scheduled.
C34_Witness ==
    /\ trace # << >> /\ Last(trace) = StopMark
    /\ onChatUpdate = 0 /\ connection = 0 /\ pollInterval = 0
    /\ timers = {1}
    /\ \E p \in CycleIds :
          /\ procs[p].pc = "done" /\ procs[p].cap >= 1
          /\ Htmls[procs[p].cap] # << >>
          /\ lastHash = hashString(Htmls[procs[p].cap])
====
